---- MODULE Spec2Model ----
(***************************************************************************)
(* Architecture assembly of torchvision/models/video/resnext3d.py.         *)
(*                                                                         *)
(* A module object is a record with a field cls (its Python class); a      *)
(* container also has mods, its registered sub-modules by attribute name.  *)
(* A tensor is a record [shape |-> <<N, C, T, H, W>>], with a field val (one *)
(* sampled element) where values matter; a raised exception is a record    *)
(* [raised |-> <exception class>].                                         *)
(***************************************************************************)
EXTENDS Integers, Sequences, FiniteSets, TLC

VARIABLES
    pc,      \* position of the caller: which constructor / forward runs next
    args,    \* the arguments of the call under study (hyperparameters, input)
    self,    \* the module object built so far
    x,       \* the tensor flowing through forward: [shape, val], val one sampled element
    locals,  \* locals of the last ResBlock.forward (skip_out, residual_out)
    err      \* "none", or the class of the exception that ended the run

vars == <<pc, args, self, x, locals, err>>

(***************************************************************************)
(* Bounds of the explored inputs.                                          *)
(***************************************************************************)
MaxKernel == 3
MaxStride == 2
MaxExtent == 3
MaxBlocks == 3
MaxBasis == 2
MaxPositions == 2

----------------------------------------------------------------------------
(* Exceptions and results *)

NoModule == [cls |-> "None"]
NoLocals == [none |-> TRUE]
Raise(e) == [raised |-> e]
IsRaised(r) == "raised" \in DOMAIN r
Tensor(s) == [shape |-> s]

Max(a, b) == IF a >= b THEN a ELSE b

----------------------------------------------------------------------------
(* torch.nn primitives as the source instantiates them *)

\* nn.Conv3d(dim_in, dim_out, kernel_size, stride, padding, groups, bias=False)
Conv3d(cin, cout, k, s, p, g) ==
    [cls |-> "Conv3d", in_channels |-> cin, out_channels |-> cout,
     kernel_size |-> k, stride |-> s, padding |-> p, groups |-> g,
     weight |-> "torch_default", bias |-> "absent",
     final_transform_op |-> FALSE]

\* nn.BatchNorm3d(num_features): affine, scale 1 and bias 0 on creation
BatchNorm3d(c) ==
    [cls |-> "BatchNorm3d", num_features |-> c, affine |-> TRUE,
     weight |-> "one", bias |-> "zero", final_transform_op |-> FALSE]

ReLU == [cls |-> "ReLU"]
Identity == [cls |-> "Identity"]

\* nn.MaxPool3d(kernel_size, stride, padding)
MaxPool3d(k, s, p) ==
    [cls |-> "MaxPool3d", kernel_size |-> k, stride |-> s, padding |-> p]

\* nn.AvgPool3d(pool_size, stride=1)
AvgPool3d(k) == [cls |-> "AvgPool3d", kernel_size |-> k, stride |-> <<1, 1, 1>>]

AdaptiveAvgPool3d(o) == [cls |-> "AdaptiveAvgPool3d", output_size |-> o]

Dropout(p100) == [cls |-> "Dropout", p_percent |-> p100]

\* nn.Linear(dim_in, num_classes, bias=True)
Linear(cin, cout) ==
    [cls |-> "Linear", in_features |-> cin, out_features |-> cout,
     weight |-> "torch_default", bias |-> "torch_default"]

\* the padding kernel // 2 the bottleneck and stem convolutions are given
SamePaddingNone(k) == 0
SamePadding(k) == k \div 2

\* output extent of a convolution / pooling window along one dimension
ConvOutSizeNoPlusOne(n, k, s, p) == (n + 2 * p - k) \div s
ConvOutSize(n, k, s, p) == ((n + 2 * p - k) \div s) + 1

WindowForward(m, t, cout, pad) ==
    LET s == t.shape IN
    IF \E d \in 1..3 : s[d + 2] + 2 * pad[d] < m.kernel_size[d]
    THEN Raise("RuntimeError")
    ELSE Tensor(<<s[1], cout,
                  ConvOutSize(s[3], m.kernel_size[1], m.stride[1], pad[1]),
                  ConvOutSize(s[4], m.kernel_size[2], m.stride[2], pad[2]),
                  ConvOutSize(s[5], m.kernel_size[3], m.stride[3], pad[3])>>)

Conv3d_forward(m, t) ==
    IF t.shape[2] # m.in_channels THEN Raise("RuntimeError")
    ELSE WindowForward(m, t, m.out_channels, m.padding)

\* in training mode batch statistics need more than one value per channel
BatchNorm3d_forward(m, t, training) ==
    LET s == t.shape IN
    IF s[2] # m.num_features THEN Raise("RuntimeError")
    ELSE IF training /\ s[1] * s[3] * s[4] * s[5] = 1 THEN Raise("ValueError")
    ELSE t

MaxPool3d_forward(m, t) == WindowForward(m, t, t.shape[2], m.padding)

AvgPool3d_forward(m, t) == WindowForward(m, t, t.shape[2], <<0, 0, 0>>)

AdaptiveAvgPool3d_forward(m, t) ==
    Tensor(<<t.shape[1], t.shape[2]>> \o m.output_size)

\* a leaf layer applied to a tensor or propagating an exception
Apply(m, t, training) ==
    IF IsRaised(t) THEN t
    ELSE CASE m.cls = "Conv3d" -> Conv3d_forward(m, t)
           [] m.cls = "BatchNorm3d" -> BatchNorm3d_forward(m, t, training)
           [] m.cls = "MaxPool3d" -> MaxPool3d_forward(m, t)
           [] m.cls = "AvgPool3d" -> AvgPool3d_forward(m, t)
           [] m.cls = "AdaptiveAvgPool3d" -> AdaptiveAvgPool3d_forward(m, t)
           [] OTHER -> t   \* ReLU, Identity, Dropout keep the shape

----------------------------------------------------------------------------
(* Transformation strategies *)

PostactivatedBottleneckTransformation(dim_in, dim_out, temporal_stride, spatial_stride, num_groups, dim_inner, temporal_kernel_size, temporal_conv_1x1, spatial_stride_1x1) ==
    LET temporal_kernel_size_1x1 == IF temporal_conv_1x1 THEN temporal_kernel_size ELSE 1
        temporal_kernel_size_3x3 == IF temporal_conv_1x1 THEN 1 ELSE temporal_kernel_size
        str1x1 == IF spatial_stride_1x1 THEN spatial_stride ELSE 1
        str3x3 == IF spatial_stride_1x1 THEN 1 ELSE spatial_stride
    IN [cls |-> "PostactivatedBottleneckTransformation",
        mods |-> [
          branch2a |-> Conv3d(dim_in, dim_inner, <<temporal_kernel_size_1x1, 1, 1>>,
                              <<1, str1x1, str1x1>>,
                              <<SamePadding(temporal_kernel_size_1x1), 0, 0>>, 1),
          branch2a_bn |-> BatchNorm3d(dim_inner),
          branch2a_relu |-> ReLU,
          branch2b |-> Conv3d(dim_inner, dim_inner, <<temporal_kernel_size_3x3, 3, 3>>,
                              <<temporal_stride, str3x3, str3x3>>,
                              <<SamePadding(temporal_kernel_size_3x3), 1, 1>>, num_groups),
          branch2b_bn |-> BatchNorm3d(dim_inner),
          branch2b_relu |-> ReLU,
          branch2c |-> Conv3d(dim_inner, dim_out, <<1, 1, 1>>, <<1, 1, 1>>,
                              <<0, 0, 0>>, 1),
          branch2c_bn |-> [BatchNorm3d(dim_out) EXCEPT !.final_transform_op = TRUE]]]

PostactivatedBottleneckTransformation_forward(m, t, training) ==
    LET a1 == Apply(m.mods.branch2a, t, training)
        a2 == Apply(m.mods.branch2a_bn, a1, training)
        a3 == Apply(m.mods.branch2a_relu, a2, training)
        b1 == Apply(m.mods.branch2b, a3, training)
        b2 == Apply(m.mods.branch2b_bn, b1, training)
        b3 == Apply(m.mods.branch2b_relu, b2, training)
        c1 == Apply(m.mods.branch2c, b3, training)
    IN Apply(m.mods.branch2c_bn, c1, training)

PreactivatedBottleneckTransformation(dim_in, dim_out, temporal_stride, spatial_stride, num_groups, dim_inner, temporal_kernel_size, temporal_conv_1x1, spatial_stride_1x1, disable_pre_activation) ==
    LET temporal_kernel_size_1x1 == IF temporal_conv_1x1 THEN temporal_kernel_size ELSE 1
        temporal_kernel_size_3x3 == IF temporal_conv_1x1 THEN 1 ELSE temporal_kernel_size
        str1x1 == IF spatial_stride_1x1 THEN spatial_stride ELSE 1
        str3x3 == IF spatial_stride_1x1 THEN 1 ELSE spatial_stride
    IN [cls |-> "PreactivatedBottleneckTransformation",
        disable_pre_activation |-> disable_pre_activation,
        mods |-> [
          branch2a_bn |-> IF ~disable_pre_activation THEN BatchNorm3d(dim_in) ELSE Identity,
          branch2a_relu |-> IF ~disable_pre_activation THEN ReLU ELSE Identity,
          branch2a |-> Conv3d(dim_in, dim_inner, <<temporal_kernel_size_1x1, 1, 1>>,
                              <<1, str1x1, str1x1>>,
                              <<SamePadding(temporal_kernel_size_1x1), 0, 0>>, 1),
          branch2b_bn |-> BatchNorm3d(dim_inner),
          branch2b_relu |-> ReLU,
          branch2b |-> Conv3d(dim_inner, dim_inner, <<temporal_kernel_size_3x3, 3, 3>>,
                              <<temporal_stride, str3x3, str3x3>>,
                              <<SamePadding(temporal_kernel_size_3x3), 1, 1>>, num_groups),
          branch2c_bn |-> BatchNorm3d(dim_inner),
          branch2c_relu |-> ReLU,
          branch2c |-> [Conv3d(dim_inner, dim_out, <<1, 1, 1>>, <<1, 1, 1>>,
                               <<0, 0, 0>>, 1) EXCEPT !.final_transform_op = TRUE]]]

PreactivatedBottleneckTransformation_forward(m, t, training) ==
    LET a1 == Apply(m.mods.branch2a_bn, t, training)
        a2 == Apply(m.mods.branch2a_relu, a1, training)
        a3 == Apply(m.mods.branch2a, a2, training)
        b1 == Apply(m.mods.branch2b_bn, a3, training)
        b2 == Apply(m.mods.branch2b_relu, b1, training)
        b3 == Apply(m.mods.branch2b, b2, training)
        c1 == Apply(m.mods.branch2c_bn, b3, training)
        c2 == Apply(m.mods.branch2c_relu, c1, training)
    IN Apply(m.mods.branch2c, c2, training)

\* the precondition both shortcut constructors assert
ProjectionRequiredDimOnly(dim_in, dim_out, temporal_stride, spatial_stride) ==
    dim_in # dim_out

ProjectionRequired(dim_in, dim_out, temporal_stride, spatial_stride) ==
    (dim_in # dim_out) \/ (spatial_stride # 1) \/ (temporal_stride # 1)

PostactivatedShortcutTransformation(dim_in, dim_out, temporal_stride, spatial_stride) ==
    IF ~ProjectionRequired(dim_in, dim_out, temporal_stride, spatial_stride)
    THEN Raise("AssertionError")
    ELSE [cls |-> "PostactivatedShortcutTransformation",
          mods |-> [
            branch1 |-> Conv3d(dim_in, dim_out, <<1, 1, 1>>,
                               <<temporal_stride, spatial_stride, spatial_stride>>,
                               <<0, 0, 0>>, 1),
            branch1_bn |-> BatchNorm3d(dim_out)]]

PostactivatedShortcutTransformation_forward(m, t, training) ==
    Apply(m.mods.branch1_bn, Apply(m.mods.branch1, t, training), training)

PreactivatedShortcutTransformation(dim_in, dim_out, temporal_stride, spatial_stride, disable_pre_activation) ==
    LET branch1 == Conv3d(dim_in, dim_out, <<1, 1, 1>>,
                          <<temporal_stride, spatial_stride, spatial_stride>>,
                          <<0, 0, 0>>, 1)
    IN IF ~ProjectionRequired(dim_in, dim_out, temporal_stride, spatial_stride)
       THEN Raise("AssertionError")
       ELSE [cls |-> "PreactivatedShortcutTransformation",
             stride |-> <<temporal_stride, spatial_stride, spatial_stride>>,
             mods |-> IF ~disable_pre_activation
                      THEN [branch1_bn |-> BatchNorm3d(dim_in),
                            branch1_relu |-> ReLU,
                            branch1 |-> branch1]
                      ELSE [branch1 |-> branch1]]

PreactivatedShortcutTransformation_forward(m, t, training) ==
    LET pre == IF "branch1_bn" \in DOMAIN m.mods /\ "branch1_relu" \in DOMAIN m.mods
               THEN Apply(m.mods.branch1_relu,
                          Apply(m.mods.branch1_bn, t, training), training)
               ELSE t
    IN Apply(m.mods.branch1, pre, training)

\* the strategy classes a caller may pass as constructor callables
PostactSkip == [class |-> "PostactivatedShortcutTransformation"]
PreactSkip == [class |-> "PreactivatedShortcutTransformation"]
PostactResidual == [class |-> "PostactivatedBottleneckTransformation"]
PreactResidual == [class |-> "PreactivatedBottleneckTransformation"]

\* Python isinstance(v, cls): true of instances of cls only, never of a class
isinstance(v, cls) == "cls" \in DOMAIN v /\ v.cls = cls


----------------------------------------------------------------------------
(* ResBlock *)

\* calling a skip-strategy class as ResBlock.__init__ does (lines 290-298)
CallSkip(skip_transformation, dim_in, dim_out, temporal_stride, spatial_stride, disable_pre_activation) ==
    IF skip_transformation.class = "PostactivatedShortcutTransformation"
    THEN PostactivatedShortcutTransformation(dim_in, dim_out, temporal_stride, spatial_stride)
    ELSE PreactivatedShortcutTransformation(dim_in, dim_out, temporal_stride, spatial_stride, disable_pre_activation)

\* calling a residual-strategy class as ResBlock.__init__ does (lines 302-312);
\* spatial_stride_1x1 is never passed and keeps its default False
CallResidual(residual_transformation, dim_in, dim_out, temporal_stride, spatial_stride, num_groups, dim_inner, temporal_kernel_size, temporal_conv_1x1, disable_pre_activation) ==
    IF residual_transformation.class = "PostactivatedBottleneckTransformation"
    THEN PostactivatedBottleneckTransformation(dim_in, dim_out, temporal_stride, spatial_stride, num_groups, dim_inner, temporal_kernel_size, temporal_conv_1x1, FALSE)
    ELSE PreactivatedBottleneckTransformation(dim_in, dim_out, temporal_stride, spatial_stride, num_groups, dim_inner, temporal_kernel_size, temporal_conv_1x1, FALSE, disable_pre_activation)

\* the condition under which ResBlock.__init__ builds a projection skip path
SkipIsProjectionDimOnly(dim_in, dim_out, temporal_stride, spatial_stride) ==
    dim_in # dim_out

SkipIsProjection(dim_in, dim_out, temporal_stride, spatial_stride) ==
    (dim_in # dim_out) \/ (spatial_stride # 1) \/ (temporal_stride # 1)

ResBlock(dim_in, dim_out, dim_inner, temporal_kernel_size, temporal_conv_1x1, temporal_stride, spatial_stride, skip_transformation, residual_transformation, num_groups, disable_pre_activation) ==
    LET skip == IF SkipIsProjection(dim_in, dim_out, temporal_stride, spatial_stride)
                THEN CallSkip(skip_transformation, dim_in, dim_out, temporal_stride, spatial_stride, disable_pre_activation)
                ELSE Identity
        residual == CallResidual(residual_transformation, dim_in, dim_out, temporal_stride, spatial_stride, num_groups, dim_inner, temporal_kernel_size, temporal_conv_1x1, disable_pre_activation)
    IN IF IsRaised(skip) THEN skip
       ELSE [cls |-> "ResBlock",
             mods |-> [skip |-> skip, residual |-> residual, relu |-> ReLU]]

WithVal(r, v) == IF IsRaised(r) THEN r ELSE [shape |-> r.shape, val |-> v]

\* torch broadcasting of two 5-d shapes in an element-wise sum
Broadcastable(a, b) == \A d \in 1..5 : a[d] = b[d] \/ a[d] = 1 \/ b[d] = 1
Add(a, b) ==
    IF ~Broadcastable(a.shape, b.shape) THEN Raise("RuntimeError")
    ELSE [shape |-> [d \in 1..5 |-> Max(a.shape[d], b.shape[d])],
          val |-> a.val + b.val]

\* self.skip(x): the identity returns x itself; a projection's element values
\* depend on its weights and are given by skip_val
Skip_forward(m, t, training, skip_val) ==
    CASE isinstance(m, "Identity") -> t
      [] isinstance(m, "PostactivatedShortcutTransformation") ->
           WithVal(PostactivatedShortcutTransformation_forward(m, Tensor(t.shape), training), skip_val)
      [] isinstance(m, "PreactivatedShortcutTransformation") ->
           WithVal(PreactivatedShortcutTransformation_forward(m, Tensor(t.shape), training), skip_val)

\* self.residual(x): element values depend on the weights, given by residual_val
Residual_forward(m, t, training, residual_val) ==
    CASE isinstance(m, "PostactivatedBottleneckTransformation") ->
           WithVal(PostactivatedBottleneckTransformation_forward(m, Tensor(t.shape), training), residual_val)
      [] isinstance(m, "PreactivatedBottleneckTransformation") ->
           WithVal(PreactivatedBottleneckTransformation_forward(m, Tensor(t.shape), training), residual_val)

\* ResBlock.forward: the locals skip_out and residual_out, and the result
ResBlock_forward(m, t, training, residual_val, skip_val) ==
    LET skip_out == Skip_forward(m.mods.skip, t, training, skip_val)
        residual_out == IF IsRaised(skip_out) THEN skip_out
                        ELSE Residual_forward(m.mods.residual, t, training, residual_val)
        \* print(self.skip.stride) for a non-identity skip path
        printed == IF ~isinstance(m.mods.skip, "Identity") /\ "stride" \notin DOMAIN m.mods.skip
                   THEN Raise("AttributeError") ELSE NoLocals
        sum == Add(skip_out, residual_out)
        out == IF IsRaised(skip_out) THEN skip_out
               ELSE IF IsRaised(residual_out) THEN residual_out
               ELSE IF IsRaised(printed) THEN printed
               ELSE IF IsRaised(sum) THEN sum
               ELSE [shape |-> sum.shape, val |-> Max(0, sum.val)]
    IN [skip_out |-> skip_out, residual_out |-> residual_out, out |-> out]

----------------------------------------------------------------------------
(* ResStage *)

\* Python list repetition  l * n
RECURSIVE ListRepeat(_, _)
ListRepeat(l, n) == IF n <= 0 THEN <<>> ELSE l \o ListRepeat(l, n - 1)

\* Python slice  l[:n]
TakeLast(l, n) == IF n >= Len(l) THEN l ELSE SubSeq(l, Len(l) - n + 1, Len(l))
TakeFirst(l, n) == IF n >= Len(l) THEN l ELSE SubSeq(l, 1, n)

\* self.temporal_kernel_sizes (lines 388-390)
TemporalKernelSizes(temporal_kernel_basis, num_blocks) ==
    [i \in 1..Len(temporal_kernel_basis) |->
        TakeFirst(ListRepeat(temporal_kernel_basis[i], num_blocks[i]), num_blocks[i])]

\* the equal-length validation of the per-pathway lists (lines 364-382)
ListLengthsWithoutConv1x1(dim_in, dim_out, dim_inner, temporal_kernel_basis, temporal_conv_1x1, temporal_stride, spatial_stride, num_blocks, num_groups) ==
    {Len(dim_in), Len(dim_out), Len(temporal_kernel_basis),
     Len(temporal_stride), Len(spatial_stride), Len(num_blocks), Len(dim_inner),
     Len(num_groups)}

ListLengths(dim_in, dim_out, dim_inner, temporal_kernel_basis, temporal_conv_1x1, temporal_stride, spatial_stride, num_blocks, num_groups) ==
    {Len(dim_in), Len(dim_out), Len(temporal_kernel_basis), Len(temporal_conv_1x1),
     Len(temporal_stride), Len(spatial_stride), Len(num_blocks), Len(dim_inner),
     Len(num_groups)}

\* block_disable_pre_activation of block i (0-based) of a stage
BlockDisablePreActivationEveryBlock(disable_pre_activation, i) ==
    disable_pre_activation

BlockDisablePreActivation(disable_pre_activation, i) ==
    IF disable_pre_activation /\ i = 0 THEN TRUE ELSE FALSE

\* the dim_in and the strides block i (0-based) of a pathway is built with
\* (lines 400, 405, 406)
BlockDimIn(dim_in, dim_out, i) == IF i = 0 THEN dim_in ELSE dim_out

BlockStrideEveryBlock(stride, i) == stride

BlockStride(stride, i) == IF i = 0 THEN stride ELSE 1

\* whether the stage appends the trailing BatchNorm3d + ReLU (line 417)
AppendsFinalActivation(final_stage, residual_transformation) ==
    final_stage /\ isinstance(residual_transformation, "PreactivatedBottleneckTransformation")

\* ResStage.__init__; pathway p (0-based) is mods[p + 1], registered "pathway{p}"
ResStage(stage_idx, dim_in, dim_out, dim_inner, temporal_kernel_basis, temporal_conv_1x1, temporal_stride, spatial_stride, num_blocks, num_groups, skip_transformation, residual_transformation, disable_pre_activation, final_stage) ==
    IF Cardinality(ListLengths(dim_in, dim_out, dim_inner, temporal_kernel_basis, temporal_conv_1x1, temporal_stride, spatial_stride, num_blocks, num_groups)) # 1
    THEN Raise("ValueError")
    ELSE
      LET num_pathways == Len(num_blocks)
          temporal_kernel_sizes == TemporalKernelSizes(temporal_kernel_basis, num_blocks)
          res_block(p, i) ==
              ResBlock(BlockDimIn(dim_in[p], dim_out[p], i), dim_out[p], dim_inner[p],
                       temporal_kernel_sizes[p][i + 1], temporal_conv_1x1[p],
                       BlockStride(temporal_stride[p], i),
                       BlockStride(spatial_stride[p], i),
                       skip_transformation, residual_transformation, num_groups[p],
                       BlockDisablePreActivation(disable_pre_activation, i))
          blocks(p) == [j \in 1..num_blocks[p] |-> res_block(p, j - 1)]
          activate(p) == IF AppendsFinalActivation(final_stage, residual_transformation)
                         THEN <<BatchNorm3d(dim_out[p]), ReLU>> ELSE <<>>
      IN IF \E p \in 1..num_pathways : Len(temporal_kernel_sizes[p]) < num_blocks[p]
         THEN Raise("IndexError")
         ELSE IF \E p \in 1..num_pathways : \E j \in 1..num_blocks[p] : IsRaised(blocks(p)[j])
         THEN Raise("AssertionError")
         ELSE [cls |-> "ResStage", stage_idx |-> stage_idx, num_blocks |-> num_blocks,
               num_pathways |-> num_pathways,
               temporal_kernel_sizes |-> temporal_kernel_sizes,
               mods |-> [p \in 1..num_pathways |->
                           [cls |-> "Sequential", mods |-> blocks(p) \o activate(p)]]]

\* the number of sub-modules (blocks, trailing activation layers and pathway
\* sequences) ResStage.__init__ has created when it returns or raises: the
\* loops at lines 392-426 run in pathway order, block by block
ResStage_created(stage_idx, dim_in, dim_out, dim_inner, temporal_kernel_basis, temporal_conv_1x1, temporal_stride, spatial_stride, num_blocks, num_groups, skip_transformation, residual_transformation, disable_pre_activation, final_stage) ==
    IF Cardinality(ListLengths(dim_in, dim_out, dim_inner, temporal_kernel_basis, temporal_conv_1x1, temporal_stride, spatial_stride, num_blocks, num_groups)) # 1
    THEN 0
    ELSE
      LET num_pathways == Len(num_blocks)
          temporal_kernel_sizes == TemporalKernelSizes(temporal_kernel_basis, num_blocks)
          fails(p, i) ==
              \/ i + 1 > Len(temporal_kernel_sizes[p])
              \/ IsRaised(ResBlock(BlockDimIn(dim_in[p], dim_out[p], i), dim_out[p], dim_inner[p],
                                   temporal_kernel_sizes[p][i + 1], temporal_conv_1x1[p],
                                   BlockStride(temporal_stride[p], i),
                                   BlockStride(spatial_stride[p], i),
                                   skip_transformation, residual_transformation, num_groups[p],
                                   BlockDisablePreActivation(disable_pre_activation, i)))
          built(p, i) == \A q \in 1..p : \A j \in 0..(num_blocks[q] - 1) :
                            (q < p \/ j <= i) => ~fails(q, j)
          blocks == {pi \in (1..num_pathways) \X (0..MaxBlocks) :
                        pi[2] < num_blocks[pi[1]] /\ built(pi[1], pi[2])}
          pathways == {p \in 1..num_pathways :
                          \A q \in 1..p : \A j \in 0..(num_blocks[q] - 1) : ~fails(q, j)}
          activate == IF AppendsFinalActivation(final_stage, residual_transformation)
                      THEN 2 ELSE 0
      IN Cardinality(blocks) + Cardinality(pathways) * (1 + activate)

----------------------------------------------------------------------------
(* Stem *)

\* ResNeXt3DStemSinglePathway.__init__ with _construct_stem
ResNeXt3DStemSinglePathway(dim_in, dim_out, kernel, stride, padding, maxpool) ==
    LET base == [conv |-> Conv3d(dim_in, dim_out, kernel, stride, padding, 1),
                 bn |-> BatchNorm3d(dim_out),
                 relu |-> ReLU]
        pool == [pool_layer |-> MaxPool3d(<<1, 3, 3>>, <<1, 2, 2>>, <<0, 1, 1>>)]
    IN [cls |-> "ResNeXt3DStemSinglePathway", maxpool |-> maxpool,
        mods |-> IF maxpool THEN base @@ pool ELSE base]

ResNeXt3DStemSinglePathway_forward(m, t, training) ==
    LET c == Apply(m.mods.conv, t, training)
        b == Apply(m.mods.bn, c, training)
        r == Apply(m.mods.relu, b, training)
    IN IF m.maxpool THEN Apply(m.mods.pool_layer, r, training) ELSE r

\* the equal-length validation of the stem's per-pathway lists (line 520)
StemListLengthsDiffer(dim_in, dim_out, kernel, stride, padding) ==
    Len(dim_in) # Len(dim_out) \/ Len(dim_in) # Len(kernel) \/ Len(dim_in) # Len(stride) \/ Len(dim_in) # Len(padding)

\* ResNeXt3DStemMultiPathway.__init__: one single-pathway stem per pathway,
\* each built with the default maxpool=True; stem p is mods[p + 1]
ResNeXt3DStemMultiPathway(dim_in, dim_out, kernel, stride, padding) ==
    IF StemListLengthsDiffer(dim_in, dim_out, kernel, stride, padding)
    THEN Raise("ValueError")
    ELSE [cls |-> "ResNeXt3DStemMultiPathway", num_pathways |-> Len(dim_in),
          mods |-> [p \in 1..Len(dim_in) |->
                      ResNeXt3DStemSinglePathway(dim_in[p], dim_out[p], kernel[p], stride[p], padding[p], TRUE)]]

\* the number of single-pathway stems ResNeXt3DStemMultiPathway.__init__ has
\* created and registered when it returns or raises (lines 530-544)
ResNeXt3DStemMultiPathway_created(dim_in, dim_out, kernel, stride, padding) ==
    IF StemListLengthsDiffer(dim_in, dim_out, kernel, stride, padding)
    THEN 0
    ELSE Len(dim_in)

\* ResNeXt3DStemMultiPathway.forward on a list of tensors: the loop runs over
\* the input list, looks each stem up by name and replaces the entry in place
StemLookups(m, xs) == IF Len(xs) <= m.num_pathways THEN Len(xs) ELSE m.num_pathways

ResNeXt3DStemMultiPathway_forward(m, xs, training) ==
    LET ys == [p \in 1..StemLookups(m, xs) |-> ResNeXt3DStemSinglePathway_forward(m.mods[p], xs[p], training)]
    IN IF \E p \in DOMAIN ys : IsRaised(ys[p])
       THEN ys[CHOOSE p \in DOMAIN ys : IsRaised(ys[p]) /\ \A q \in 1..(p - 1) : ~IsRaised(ys[q])]
       ELSE IF Len(xs) > m.num_pathways THEN Raise("KeyError")
       ELSE [list |-> ys]

\* the caller's list after the call: the entries handled before the call
\* returned or raised hold the stem outputs
ResNeXt3DStemMultiPathway_forward_x(m, xs, training) ==
    LET ys == [p \in 1..StemLookups(m, xs) |-> ResNeXt3DStemSinglePathway_forward(m.mods[p], xs[p], training)]
    IN [p \in 1..Len(xs) |->
          IF p \in DOMAIN ys /\ \A q \in 1..p : ~IsRaised(ys[q]) THEN ys[p] ELSE xs[p]]

\* ResNeXt3DStem.__init__ with _construct_stem; maxpool is not passed on
ResNeXt3DStem(temporal_kernel, spatial_kernel, input_planes, stem_planes, maxpool) ==
    [cls |-> "ResNeXt3DStem",
     mods |-> [stem |-> ResNeXt3DStemMultiPathway(
                 <<input_planes>>, <<stem_planes>>,
                 <<<<temporal_kernel, spatial_kernel, spatial_kernel>>>>,
                 <<<<1, 2, 2>>>>,
                 <<<<SamePadding(temporal_kernel), SamePadding(spatial_kernel), SamePadding(spatial_kernel)>>>>)]]

ResNeXt3DStem_forward(m, xs, training) ==
    ResNeXt3DStemMultiPathway_forward(m.mods.stem, xs, training)

----------------------------------------------------------------------------
(* Head *)

RECURSIVE Product(_)
Product(l) == IF l = <<>> THEN 1 ELSE Head(l) * Product(Tail(l))

\* x.permute(perm), dimensions numbered from 0
Permute(shape, perm) == [i \in 1..Len(perm) |-> shape[perm[i] + 1]]

\* x.mean(dims): the averaged dimensions (numbered from 0) disappear
RECURSIVE MeanShape(_, _, _)
MeanShape(shape, dims, i) ==
    IF i > Len(shape) THEN <<>>
    ELSE (IF (i - 1) \in dims THEN <<>> ELSE <<shape[i]>>) \o MeanShape(shape, dims, i + 1)

\* x.flatten(start_dim), dimensions numbered from 0
Flatten(shape, start_dim) ==
    IF Len(shape) <= start_dim + 1 THEN shape
    ELSE SubSeq(shape, 1, start_dim) \o <<Product(SubSeq(shape, start_dim + 1, Len(shape)))>>

FullyConvolutionalLinear(dim_in, num_classes) ==
    [cls |-> "FullyConvolutionalLinear",
     mods |-> [projection |-> Linear(dim_in, num_classes),
               act |-> [cls |-> "Softmax", dim |-> 4]]]

Linear_forward(m, shape) ==
    IF shape[Len(shape)] # m.in_features THEN Raise("RuntimeError")
    ELSE Tensor([i \in 1..Len(shape) |-> IF i = Len(shape) THEN m.out_features ELSE shape[i]])

FullyConvolutionalLinear_forwardAlwaysFlatten(m, t, training) ==
    LET projected == Linear_forward(m.mods.projection, Permute(t.shape, <<0, 2, 3, 4, 1>>))
    IN IF IsRaised(projected) THEN projected
       ELSE Tensor(Flatten(projected.shape, 1))

FullyConvolutionalLinear_forward(m, t, training) ==
    LET projected == Linear_forward(m.mods.projection, Permute(t.shape, <<0, 2, 3, 4, 1>>))
    IN IF IsRaised(projected) THEN projected
       ELSE IF ~training
            THEN Tensor(Flatten(MeanShape(projected.shape, {1, 2, 3}, 1), 1))
            ELSE Tensor(Flatten(projected.shape, 1))

NoPoolSize == <<>>

FullyConvolutionalLinearHead(num_classes, in_plane, pool_size, use_dropout) ==
    LET base == [final_avgpool |-> IF pool_size # NoPoolSize THEN AvgPool3d(pool_size)
                                   ELSE AdaptiveAvgPool3d(<<1, 1, 1>>),
                 head_fcl |-> FullyConvolutionalLinear(in_plane, num_classes)]
    IN [cls |-> "FullyConvolutionalLinearHead",
        mods |-> IF use_dropout THEN base @@ [dropout |-> Dropout(50)] ELSE base]

\* FullyConvolutionalLinearHead.forward: the pooled tensor and the result
FullyConvolutionalLinearHead_forward(m, t, training) ==
    LET pooled == Apply(m.mods.final_avgpool, Tensor(t.shape), training)
        dropped == IF "dropout" \in DOMAIN m.mods THEN Apply(m.mods.dropout, pooled, training)
                   ELSE pooled
    IN [pooled |-> pooled,
        out |-> IF IsRaised(dropped) THEN dropped
                ELSE FullyConvolutionalLinear_forward(m.mods.head_fcl, dropped, training)]

----------------------------------------------------------------------------
(* ResNeXt3D *)

RECURSIVE Pow2(_)
Pow2(i) == IF i <= 0 THEN 1 ELSE 2 * Pow2(i - 1)

\* out_planes, in_planes and inner_planes (lines 742-744)
OutPlanesConstant(stage_planes, num_stages) ==
    [i \in 1..num_stages |-> stage_planes]

OutPlanes(stage_planes, num_stages) ==
    [i \in 1..num_stages |-> stage_planes * Pow2(i - 1)]
InPlanes(stem_planes, out_planes) ==
    <<stem_planes>> \o SubSeq(out_planes, 1, Len(out_planes) - 1)
InnerPlanes(num_groups, width_per_group, num_stages) ==
    [i \in 1..num_stages |-> num_groups * width_per_group * Pow2(i - 1)]

\* the stage built in iteration s (0-based) of the loop at lines 747-764
NewStage(hp, s) ==
    LET num_stages == Len(hp.num_blocks)
        out_planes == OutPlanes(hp.stage_planes, num_stages)
        in_planes == InPlanes(hp.stem_planes, out_planes)
        inner_planes == InnerPlanes(hp.num_groups, hp.width_per_group, num_stages)
    IN ResStage(s + 1, <<in_planes[s + 1]>>, <<out_planes[s + 1]>>, <<inner_planes[s + 1]>>,
                <<hp.stage_temporal_kernel_basis[s + 1]>>, <<hp.temporal_conv_1x1[s + 1]>>,
                <<hp.stage_temporal_stride[s + 1]>>, <<hp.stage_spatial_stride[s + 1]>>,
                <<hp.num_blocks[s + 1]>>, <<hp.num_groups>>,
                hp.skip_transformation, hp.residual_transformation,
                s = 0, s = num_stages - 1)

\* the in_plane the head is built with (line 770)
HeadInPlane == 2048

\* one step of _init_parameter's loop: the rule for module m
InitLayerIgnoreTag(m, zero_init_residual_transform) ==
    CASE isinstance(m, "Conv3d") -> [m EXCEPT !.weight = "kaiming_normal_fan_out"]
      [] isinstance(m, "BatchNorm3d") -> [m EXCEPT !.weight = "one", !.bias = "zero"]
      [] isinstance(m, "Linear") -> [m EXCEPT !.weight = "normal_std_0.01", !.bias = "zero"]
      [] OTHER -> m

InitLayer(m, zero_init_residual_transform) ==
    CASE isinstance(m, "Conv3d") ->
           [m EXCEPT !.weight = IF m.final_transform_op /\ zero_init_residual_transform
                                THEN "zero" ELSE "kaiming_normal_fan_out",
                     !.bias = IF m.bias # "absent" THEN "zero" ELSE m.bias]
      [] isinstance(m, "BatchNorm3d") /\ m.affine ->
           [m EXCEPT !.weight = IF m.final_transform_op /\ zero_init_residual_transform
                                THEN "zero" ELSE "one",
                     !.bias = "zero"]
      [] isinstance(m, "Linear") ->
           [m EXCEPT !.weight = "normal_std_0.01", !.bias = "zero"]
      [] OTHER -> m

\* _init_parameter: the rule applied to every module self.modules() yields,
\* that is every module registered under m at the time of the call
RECURSIVE InitParameter(_, _)
InitParameter(m, zero_init_residual_transform) ==
    IF "mods" \in DOMAIN m
    THEN [m EXCEPT !.mods = [k \in DOMAIN m.mods |->
                               InitParameter(m.mods[k], zero_init_residual_transform)]]
    ELSE InitLayer(m, zero_init_residual_transform)

\* one module of a stage's nn.Sequential applied to the running tensor
PathwayEntry_forward(m, t, training, residual_val, skip_val) ==
    IF isinstance(m, "ResBlock")
    THEN ResBlock_forward(m, t, training, residual_val, skip_val)
    ELSE [out |-> WithVal(Apply(m, Tensor(t.shape), training),
                          IF isinstance(m, "ReLU") THEN Max(0, t.val) ELSE residual_val)]

----------------------------------------------------------------------------
(* A ResBlock built and called on its own *)

Vals == {-1, 2}
Dims == {4, 8}

\* skip and residual strategies come in the two pairs the factories use;
\* disable_pre_activation only reaches the pre-activated constructors
BlockArgs ==
    {a \in [dim_in : Dims, dim_out : {8}, dim_inner : {2},
            temporal_kernel_size : 1..MaxKernel, temporal_conv_1x1 : BOOLEAN,
            temporal_stride : 1..MaxStride, spatial_stride : 1..MaxStride,
            skip_transformation : {PostactSkip, PreactSkip},
            residual_transformation : {PostactResidual, PreactResidual},
            num_groups : {1}, disable_pre_activation : BOOLEAN,
            training : BOOLEAN,
            input : [shape : {<<1, c, t, h, MaxExtent>> : c \in Dims, t \in 1..MaxExtent, h \in 1..MaxExtent},
                     val : Vals]] :
        /\ a.input.shape[2] = a.dim_in
        /\ (a.skip_transformation = PostactSkip) <=> (a.residual_transformation = PostactResidual)
        /\ a.disable_pre_activation => a.skip_transformation = PreactSkip}

InitBlock ==
    /\ args \in BlockArgs
    /\ pc = "ResBlock.__init__"
    /\ self = NoModule
    /\ x = args.input
    /\ locals = NoLocals
    /\ err = "none"

ResBlockInit ==
    /\ pc = "ResBlock.__init__"
    /\ LET b == ResBlock(args.dim_in, args.dim_out, args.dim_inner, args.temporal_kernel_size, args.temporal_conv_1x1, args.temporal_stride, args.spatial_stride, args.skip_transformation, args.residual_transformation, args.num_groups, args.disable_pre_activation)
       IN IF IsRaised(b)
          THEN /\ pc' = "raised" /\ err' = b.raised /\ self' = self
          ELSE /\ pc' = "ResBlock.forward" /\ self' = b /\ err' = err
    /\ UNCHANGED <<args, x, locals>>

ResBlockForward ==
    /\ pc = "ResBlock.forward"
    /\ \E residual_val \in Vals, skip_val \in Vals :
         LET r == ResBlock_forward(self, x, args.training, residual_val, skip_val)
         IN /\ locals' = [skip_out |-> r.skip_out, residual_out |-> r.residual_out]
            /\ IF IsRaised(r.out)
               THEN /\ pc' = "raised" /\ err' = r.out.raised /\ x' = x
               ELSE /\ pc' = "done" /\ x' = r.out /\ err' = err
    /\ UNCHANGED <<args, self>>

NextBlock == ResBlockInit \/ ResBlockForward

SpecBlock == InitBlock /\ [][NextBlock]_vars

----------------------------------------------------------------------------
(* A skip strategy constructed directly, or a ResBlock built and called *)

\* a direct call takes the constructor arguments of a ResBlock call; the input
\* plays no part in it
SkipArgs ==
    {a @@ [call |-> "ResBlock"] : a \in BlockArgs}
    \cup {a @@ [call |-> "skip_transformation"] :
             a \in {b \in BlockArgs : /\ b.input = [shape |-> <<1, b.dim_in, 1, 1, MaxExtent>>, val |-> 2]
                                      /\ b.training}}

InitSkip ==
    /\ args \in SkipArgs
    /\ pc = IF args.call = "ResBlock" THEN "ResBlock.__init__" ELSE "skip_transformation.__init__"
    /\ self = NoModule
    /\ x = args.input
    /\ locals = NoLocals
    /\ err = "none"

SkipInit ==
    /\ pc = "skip_transformation.__init__"
    /\ LET sk == CallSkip(args.skip_transformation, args.dim_in, args.dim_out, args.temporal_stride, args.spatial_stride, args.disable_pre_activation)
       IN IF IsRaised(sk)
          THEN /\ pc' = "raised" /\ err' = sk.raised /\ self' = self
          ELSE /\ pc' = "built" /\ self' = sk /\ err' = err
    /\ UNCHANGED <<args, x, locals>>

NextSkip == SkipInit \/ ResBlockInit \/ ResBlockForward

SpecSkip == InitSkip /\ [][NextSkip]_vars

----------------------------------------------------------------------------
(* A ResStage built on its own *)

NoTensor == [none |-> TRUE]

KernelSizes == {1, 3}
Bases == UNION {[1..n -> KernelSizes] : n \in 0..MaxBasis}

\* the parameters of one pathway
PathwayParams ==
    [dim_in : Dims, dim_out : {8}, dim_inner : {2}, temporal_kernel_basis : Bases,
     temporal_conv_1x1 : BOOLEAN, temporal_stride : {1, 2}, spatial_stride : {1, 2},
     num_blocks : 0..MaxBlocks, num_groups : {1}]

SecondPathway ==
    [dim_in |-> 4, dim_out |-> 8, dim_inner |-> 2, temporal_kernel_basis |-> <<3, 1>>,
     temporal_conv_1x1 |-> FALSE, temporal_stride |-> 1, spatial_stride |-> 2,
     num_blocks |-> 2, num_groups |-> 1]

ListNames ==
    {"dim_in", "dim_out", "dim_inner", "temporal_kernel_basis", "temporal_conv_1x1",
     "temporal_stride", "spatial_stride", "num_blocks", "num_groups"}

\* per-pathway lists of equal length, one entry per pathway
StageLists(ps) == [f \in ListNames |-> [p \in 1..Len(ps) |-> ps[p][f]]]

\* the same with the list named f one entry longer
StageListsLonger(ps, f) ==
    [g \in ListNames |-> IF g = f THEN StageLists(ps)[g] \o <<SecondPathway[g]>>
                         ELSE StageLists(ps)[g]]

StageArgs ==
    {[lists |-> l, skip_transformation |-> st[1], residual_transformation |-> st[2],
      disable_pre_activation |-> d, final_stage |-> fs] :
        l \in {StageLists(<<p1>>) : p1 \in PathwayParams}
              \cup {StageLists(<<p1, SecondPathway>>) : p1 \in PathwayParams}
              \cup {StageLists(<<SecondPathway, p1>>) :
                        p1 \in {q \in PathwayParams : q.temporal_kernel_basis = <<>>}}
              \cup {StageListsLonger(<<SecondPathway>>, f) : f \in ListNames}
              \cup {StageListsLonger(<<SecondPathway, SecondPathway>>, f) : f \in ListNames},
        st \in {<<PostactSkip, PostactResidual>>, <<PreactSkip, PreactResidual>>},
        d \in BOOLEAN, fs \in BOOLEAN}

InitStage ==
    /\ args \in StageArgs
    /\ pc = "ResStage.__init__"
    /\ self = NoModule
    /\ x = NoTensor
    /\ locals = NoLocals
    /\ err = "none"

ResStageInit ==
    /\ pc = "ResStage.__init__"
    /\ LET l == args.lists
           st == ResStage(1, l.dim_in, l.dim_out, l.dim_inner, l.temporal_kernel_basis, l.temporal_conv_1x1, l.temporal_stride, l.spatial_stride, l.num_blocks, l.num_groups, args.skip_transformation, args.residual_transformation, args.disable_pre_activation, args.final_stage)
       IN /\ locals' = [created |-> ResStage_created(1, l.dim_in, l.dim_out, l.dim_inner, l.temporal_kernel_basis, l.temporal_conv_1x1, l.temporal_stride, l.spatial_stride, l.num_blocks, l.num_groups, args.skip_transformation, args.residual_transformation, args.disable_pre_activation, args.final_stage)]
          /\ IF IsRaised(st)
             THEN /\ pc' = "raised" /\ err' = st.raised /\ self' = self
             ELSE /\ pc' = "built" /\ self' = st /\ err' = err
    /\ UNCHANGED <<args, x>>

NextStage == ResStageInit

SpecStage == InitStage /\ [][NextStage]_vars

----------------------------------------------------------------------------
(* A ResNeXt3DStemMultiPathway built and called on its own *)

MaxInputs == 3

\* the parameters of one stem pathway
StemPathwayParams ==
    {[dim_in |-> 3, dim_out |-> c, kernel |-> <<kt, ks, ks>>, stride |-> <<1, st, st>>,
      padding |-> <<SamePadding(kt), SamePadding(ks), SamePadding(ks)>>] :
        c \in Dims, kt \in 1..MaxKernel, ks \in KernelSizes, st \in 1..MaxStride}

SecondStemPathway ==
    [dim_in |-> 3, dim_out |-> 8, kernel |-> <<1, 3, 3>>, stride |-> <<1, 2, 2>>,
     padding |-> <<0, 1, 1>>]

StemListNames == {"dim_in", "dim_out", "kernel", "stride", "padding"}

\* per-pathway lists of equal length, one entry per pathway
StemLists(ps) == [f \in StemListNames |-> [p \in 1..Len(ps) |-> ps[p][f]]]

\* the same with the list named f one entry longer
StemListsLonger(ps, f) ==
    [g \in StemListNames |-> IF g = f THEN StemLists(ps)[g] \o <<SecondStemPathway[g]>>
                             ELSE StemLists(ps)[g]]

\* the input is a list of 0..MaxInputs tensors of one shape
StemInputs ==
    {[list |-> [p \in 1..n |-> Tensor(<<1, 3, t, h, h>>)]] :
        n \in 0..MaxInputs, t \in 1..MaxExtent, h \in 1..MaxExtent}

StemArgs ==
    {[lists |-> l, input |-> i, training |-> tr] :
        l \in {StemLists(<<p1>>) : p1 \in StemPathwayParams}
              \cup {StemLists(<<p1, SecondStemPathway>>) : p1 \in StemPathwayParams}
              \cup {StemListsLonger(<<SecondStemPathway>>, f) : f \in StemListNames}
              \cup {StemListsLonger(<<SecondStemPathway, SecondStemPathway>>, f) : f \in StemListNames},
        i \in StemInputs, tr \in BOOLEAN}

InitStem ==
    /\ args \in StemArgs
    /\ pc = "ResNeXt3DStemMultiPathway.__init__"
    /\ self = NoModule
    /\ x = args.input
    /\ locals = NoLocals
    /\ err = "none"

StemInit ==
    /\ pc = "ResNeXt3DStemMultiPathway.__init__"
    /\ LET l == args.lists
           st == ResNeXt3DStemMultiPathway(l.dim_in, l.dim_out, l.kernel, l.stride, l.padding)
       IN /\ locals' = [created |-> ResNeXt3DStemMultiPathway_created(l.dim_in, l.dim_out, l.kernel, l.stride, l.padding)]
          /\ IF IsRaised(st)
             THEN /\ pc' = "raised" /\ err' = st.raised /\ self' = self
             ELSE /\ pc' = "ResNeXt3DStemMultiPathway.forward" /\ self' = st /\ err' = err
    /\ UNCHANGED <<args, x>>

StemForward ==
    /\ pc = "ResNeXt3DStemMultiPathway.forward"
    /\ LET r == ResNeXt3DStemMultiPathway_forward(self, x.list, args.training)
       IN /\ x' = [list |-> ResNeXt3DStemMultiPathway_forward_x(self, x.list, args.training)]
          /\ IF IsRaised(r)
             THEN /\ pc' = "raised" /\ err' = r.raised
             ELSE /\ pc' = "done" /\ err' = err
    /\ UNCHANGED <<args, self, locals>>

NextStem == StemInit \/ StemForward

SpecStem == InitStem /\ [][NextStem]_vars

----------------------------------------------------------------------------
(* Either constructor that takes per-pathway lists, called on its own *)

InitPathways == InitStage \/ InitStem

NextPathways == ResStageInit \/ StemInit \/ StemForward

SpecPathways == InitPathways /\ [][NextPathways]_vars

----------------------------------------------------------------------------
(* A FullyConvolutionalLinearHead built and called on its own *)

ClassCounts == {3, 5}

HeadArgs ==
    [num_classes : ClassCounts, in_plane : {4}, use_dropout : BOOLEAN,
     pool_size : {NoPoolSize, <<1, 1, 1>>, <<1, 2, 2>>},
     training : BOOLEAN,
     input : [shape : {<<n, c, t, h, w>> : n \in {1, 2}, c \in {4, 8}, t \in 1..MaxPositions,
                                          h \in 1..MaxPositions, w \in 1..MaxPositions}]]

InitHead ==
    /\ args \in HeadArgs
    /\ pc = "FullyConvolutionalLinearHead.__init__"
    /\ self = NoModule
    /\ x = args.input
    /\ locals = NoLocals
    /\ err = "none"

HeadInit ==
    /\ pc = "FullyConvolutionalLinearHead.__init__"
    /\ self' = FullyConvolutionalLinearHead(args.num_classes, args.in_plane, args.pool_size, args.use_dropout)
    /\ pc' = "FullyConvolutionalLinearHead.forward"
    /\ UNCHANGED <<args, x, locals, err>>

HeadForward ==
    /\ pc = "FullyConvolutionalLinearHead.forward"
    /\ LET r == FullyConvolutionalLinearHead_forward(self, x, args.training)
       IN /\ locals' = [pooled |-> r.pooled]
          /\ IF IsRaised(r.out)
             THEN /\ pc' = "raised" /\ err' = r.out.raised /\ x' = x
             ELSE /\ pc' = "done" /\ x' = r.out /\ err' = err
    /\ UNCHANGED <<args, self>>

NextHead == HeadInit \/ HeadForward

SpecHead == InitHead /\ [][NextHead]_vars

----------------------------------------------------------------------------
(* ResNeXt3D built by its constructor and called on one input *)

MaxStages == 2
MaxStageBlocks == 2

resnext3d_preact_i3d50 ==
    [input_planes |-> 3, clip_crop_size |-> 224,
     skip_transformation |-> PreactSkip, residual_transformation |-> PreactResidual,
     frames_per_clip |-> 8, num_blocks |-> <<3, 4, 6, 3>>,
     stem_planes |-> 32, stem_temporal_kernel |-> 3, stem_spatial_kernel |-> 5,
     stem_maxpool |-> TRUE, stage_planes |-> 256,
     stage_temporal_kernel_basis |-> <<<<3>>, <<3, 1>>, <<3, 1>>, <<1, 3>>>>,
     temporal_conv_1x1 |-> <<TRUE, TRUE, TRUE, TRUE>>,
     stage_temporal_stride |-> <<1, 2, 1, 1>>, stage_spatial_stride |-> <<1, 2, 2, 2>>,
     num_groups |-> 1, width_per_group |-> 64, zero_init_residual_transform |-> TRUE,
     head_pool_size |-> <<4, 7, 7>>, num_classes |-> 400]

resnext3d_postact_i3d50 ==
    [input_planes |-> 3, clip_crop_size |-> 224,
     skip_transformation |-> PostactSkip, residual_transformation |-> PostactResidual,
     frames_per_clip |-> 8, num_blocks |-> <<3, 4, 6, 3>>,
     stem_planes |-> 64, stem_temporal_kernel |-> 5, stem_spatial_kernel |-> 7,
     stem_maxpool |-> TRUE, stage_planes |-> 256,
     stage_temporal_kernel_basis |-> <<<<3>>, <<3, 1>>, <<3, 1>>, <<1, 3>>>>,
     temporal_conv_1x1 |-> <<TRUE, TRUE, TRUE, TRUE>>,
     stage_temporal_stride |-> <<1, 1, 1, 1>>, stage_spatial_stride |-> <<1, 2, 2, 2>>,
     num_groups |-> 1, width_per_group |-> 64, zero_init_residual_transform |-> TRUE,
     head_pool_size |-> <<8, 7, 7>>, num_classes |-> 400]

ReferenceInput == <<1, 3, 8, 224, 224>>
LargerInput == <<2, 3, 16, 256, 256>>

\* other hyperparameter choices: three profiles of the scalar hyperparameters,
\* each with its own input
Profiles ==
    {[stage_planes |-> 2048, stem_planes |-> 64, stem_temporal_kernel |-> 5,
      stem_spatial_kernel |-> 7, num_classes |-> 400, num_groups |-> 1,
      width_per_group |-> 64, basis_odd |-> <<3>>, basis_even |-> <<3, 1>>,
      temporal_conv_1x1 |-> TRUE, temporal_stride |-> 1, spatial_stride |-> 2,
      head_pool_size |-> NoPoolSize, input |-> <<1, 3, 4, 16, 16>>],
     [stage_planes |-> 1024, stem_planes |-> 32, stem_temporal_kernel |-> 3,
      stem_spatial_kernel |-> 5, num_classes |-> 10, num_groups |-> 2,
      width_per_group |-> 4, basis_odd |-> <<1, 3>>, basis_even |-> <<3>>,
      temporal_conv_1x1 |-> FALSE, temporal_stride |-> 2, spatial_stride |-> 2,
      head_pool_size |-> <<1, 1, 1>>, input |-> <<2, 3, 4, 32, 32>>],
     [stage_planes |-> 256, stem_planes |-> 32, stem_temporal_kernel |-> 3,
      stem_spatial_kernel |-> 5, num_classes |-> 400, num_groups |-> 1,
      width_per_group |-> 64, basis_odd |-> <<3>>, basis_even |-> <<3, 1>>,
      temporal_conv_1x1 |-> TRUE, temporal_stride |-> 2, spatial_stride |-> 2,
      head_pool_size |-> <<1, 2, 2>>, input |-> <<1, 3, 8, 32, 32>>]}

NumBlocksChoices == UNION {[1..n -> 1..MaxStageBlocks] : n \in 1..MaxStages}

CustomHParams(prof, pair, num_blocks, zero_init, maxpool) ==
    [input_planes |-> 3, clip_crop_size |-> prof.input[4],
     skip_transformation |-> pair[1], residual_transformation |-> pair[2],
     frames_per_clip |-> prof.input[3], num_blocks |-> num_blocks,
     stem_planes |-> prof.stem_planes, stem_temporal_kernel |-> prof.stem_temporal_kernel,
     stem_spatial_kernel |-> prof.stem_spatial_kernel,
     stem_maxpool |-> maxpool, stage_planes |-> prof.stage_planes,
     stage_temporal_kernel_basis |->
         [i \in 1..Len(num_blocks) |-> IF i % 2 = 1 THEN prof.basis_odd ELSE prof.basis_even],
     temporal_conv_1x1 |-> [i \in 1..Len(num_blocks) |-> prof.temporal_conv_1x1],
     stage_temporal_stride |->
         [i \in 1..Len(num_blocks) |-> IF i = 2 THEN prof.temporal_stride ELSE 1],
     stage_spatial_stride |->
         [i \in 1..Len(num_blocks) |-> IF i = 1 THEN 1 ELSE prof.spatial_stride],
     num_groups |-> prof.num_groups, width_per_group |-> prof.width_per_group,
     zero_init_residual_transform |-> zero_init,
     head_pool_size |-> prof.head_pool_size, num_classes |-> prof.num_classes]

ModelArgs ==
    {[hp |-> hp, input |-> [shape |-> sh, val |-> 2], training |-> tr] :
        hp \in {resnext3d_preact_i3d50, resnext3d_postact_i3d50},
        sh \in {ReferenceInput, LargerInput}, tr \in BOOLEAN}
    \cup
    {[hp |-> CustomHParams(prof, pair, nb, z, mp),
      input |-> [shape |-> prof.input, val |-> 2], training |-> tr] :
        prof \in Profiles,
        pair \in {<<PostactSkip, PostactResidual>>, <<PreactSkip, PreactResidual>>},
        nb \in NumBlocksChoices, z \in BOOLEAN, mp \in BOOLEAN, tr \in BOOLEAN}

Init ==
    /\ args \in ModelArgs
    /\ pc = "ResNeXt3D.__init__:stem"
    /\ self = NoModule
    /\ x = args.input
    /\ locals = NoLocals
    /\ err = "none"

\* lines 723-739
ConstructStem ==
    /\ pc = "ResNeXt3D.__init__:stem"
    /\ self' = [cls |-> "ResNeXt3D",
                mods |-> [stem |-> ResNeXt3DStem(args.hp.stem_temporal_kernel, args.hp.stem_spatial_kernel, args.hp.input_planes, args.hp.stem_planes, args.hp.stem_maxpool)]]
    /\ locals' = [stages |-> <<>>]
    /\ pc' = "ResNeXt3D.__init__:stages"
    /\ UNCHANGED <<args, x, err>>

\* one iteration of the loop at lines 747-764; the stages are held in a local
\* list until the loop ends
ConstructStage ==
    /\ pc = "ResNeXt3D.__init__:stages"
    /\ LET s == Len(locals.stages)
           stage == NewStage(args.hp, s)
       IN IF IsRaised(stage)
          THEN /\ pc' = "raised" /\ err' = stage.raised /\ locals' = locals
          ELSE /\ locals' = [stages |-> Append(locals.stages, stage)]
               /\ pc' = IF s + 1 < Len(args.hp.num_blocks) THEN pc
                        ELSE "ResNeXt3D.__init__:init"
               /\ err' = err
    /\ UNCHANGED <<args, self, x>>

\* lines 766-767: the stages are registered, then _init_parameter runs
RegisterStagesAndInit ==
    /\ pc = "ResNeXt3D.__init__:init"
    /\ LET registered == [self EXCEPT !.mods = self.mods @@
                            [stages |-> [cls |-> "ModuleList", mods |-> locals.stages]]]
       IN self' = InitParameter(registered, args.hp.zero_init_residual_transform)
    /\ locals' = NoLocals
    /\ pc' = "ResNeXt3D.__init__:head"
    /\ UNCHANGED <<args, x, err>>

\* lines 768-773
ConstructHead ==
    /\ pc = "ResNeXt3D.__init__:head"
    /\ self' = [self EXCEPT !.mods = self.mods @@
                  [head |-> FullyConvolutionalLinearHead(args.hp.num_classes, HeadInPlane, args.hp.head_pool_size, TRUE)]]
    /\ pc' = "ResNeXt3D.forward:stem"
    /\ UNCHANGED <<args, x, locals, err>>

\* line 801; the stem ends in ReLU and max-pool, so its elements are >= 0
ForwardStem ==
    /\ pc = "ResNeXt3D.forward:stem"
    /\ LET out == ResNeXt3DStem_forward(self.mods.stem, <<Tensor(x.shape)>>, args.training)
       IN IF IsRaised(out)
          THEN /\ pc' = "raised" /\ err' = out.raised /\ x' = x /\ locals' = locals
          ELSE /\ \E v \in Vals : x' = WithVal(out.list[1], Max(0, v))
               /\ locals' = [s |-> 1, i |-> 1]
               /\ pc' = "ResNeXt3D.forward:stages" /\ err' = err
    /\ UNCHANGED <<args, self>>

\* lines 802-803: module i of the pathway of stage s
ForwardStages ==
    /\ pc = "ResNeXt3D.forward:stages"
    /\ LET pathway == self.mods.stages.mods[locals.s].mods[1].mods
       IN \E residual_val \in Vals, skip_val \in Vals :
            LET r == PathwayEntry_forward(pathway[locals.i], x, args.training, residual_val, skip_val)
            IN IF IsRaised(r.out)
               THEN /\ pc' = "raised" /\ err' = r.out.raised /\ x' = x /\ locals' = locals
               ELSE /\ x' = r.out /\ err' = err
                    /\ IF locals.i < Len(pathway)
                       THEN /\ locals' = [s |-> locals.s, i |-> locals.i + 1] /\ pc' = pc
                       ELSE IF locals.s < Len(self.mods.stages.mods)
                       THEN /\ locals' = [s |-> locals.s + 1, i |-> 1] /\ pc' = pc
                       ELSE /\ locals' = NoLocals /\ pc' = "ResNeXt3D.forward:head"
    /\ UNCHANGED <<args, self>>

\* line 805
ForwardHead ==
    /\ pc = "ResNeXt3D.forward:head"
    /\ LET r == FullyConvolutionalLinearHead_forward(self.mods.head, x, args.training)
       IN /\ locals' = [pooled |-> r.pooled]
          /\ IF IsRaised(r.out)
             THEN /\ pc' = "raised" /\ err' = r.out.raised /\ x' = x
             ELSE /\ pc' = "done" /\ x' = r.out /\ err' = err
    /\ UNCHANGED <<args, self>>

Next ==
    \/ ConstructStem
    \/ ConstructStage
    \/ RegisterStagesAndInit
    \/ ConstructHead
    \/ ForwardStem
    \/ ForwardStages
    \/ ForwardHead

Spec == Init /\ [][Next]_vars

----------------------------------------------------------------------------
(* Properties of the ResNeXt3D model, under Spec *)

\* ResNeXt3D.__init__ has returned
Constructed == isinstance(self, "ResNeXt3D") /\ "head" \in DOMAIN self.mods

\* C1: the model of resnext3d_postact_i3d50(), given an input of shape
\* (1,3,8,224,224), completes its forward pass without raising an error and
\* returns an output of shape (1,400).
C1_PostactForward ==
    (args.hp = resnext3d_postact_i3d50 /\ args.input.shape = ReferenceInput)
        => /\ err = "none"
           /\ pc = "done" => x.shape = <<1, 400>>

\* the extents the pre-activated reference model produces for the reference
\* input on entry to stage s (1-based): after the stem, then after each stage
PreactStageInput ==
    <<<<1, 32, 8, 56, 56>>, <<1, 256, 8, 56, 56>>, <<1, 512, 4, 28, 28>>,
      <<1, 1024, 4, 14, 14>>>>

\* C2: the model of resnext3d_preact_i3d50(), given an input of shape
\* (1,3,8,224,224), completes its forward pass and returns shape (1,400); the
\* extents after the stem and after each stage are as listed, and the head's
\* pooling window [4,7,7] leaves exactly one spatio-temporal position.
C2_PreactForward ==
    (args.hp = resnext3d_preact_i3d50 /\ args.input.shape = ReferenceInput)
        => /\ err = "none"
           /\ (pc = "ResNeXt3D.forward:stages" /\ locals.i = 1)
                => x.shape = PreactStageInput[locals.s]
           /\ pc = "ResNeXt3D.forward:head" => x.shape = <<1, 2048, 4, 7, 7>>
           /\ pc = "done" => /\ locals.pooled.shape = <<1, 2048, 1, 1, 1>>
                             /\ x.shape = <<1, 400>>

C2_Witness ==
    /\ args.hp = resnext3d_preact_i3d50 /\ args.input.shape = ReferenceInput
    /\ pc = "done" /\ x.shape = <<1, 400>>

\* C3: for every ResNeXt3D built from valid hyperparameters the channel count
\* the head's linear projection expects equals the output channel count of the
\* last stage, stage_planes * 2^(num_stages-1), and the forward output has
\* shape (batch, num_classes).
C3_OutputShape ==
    Constructed =>
        /\ self.mods.head.mods.head_fcl.mods.projection.in_features
             = args.hp.stage_planes * Pow2(Len(args.hp.num_blocks) - 1)
        /\ pc = "done" => x.shape = <<args.input.shape[1], args.hp.num_classes>>

\* the initialization policy's outcome on every layer under module m
RECURSIVE PolicyApplied(_)
PolicyApplied(m) ==
    IF "mods" \in DOMAIN m THEN \A k \in DOMAIN m.mods : PolicyApplied(m.mods[k])
    ELSE CASE isinstance(m, "Linear") -> m.weight = "normal_std_0.01" /\ m.bias = "zero"
           [] isinstance(m, "Conv3d") -> m.weight \in {"kaiming_normal_fan_out", "zero"}
           [] isinstance(m, "BatchNorm3d") ->
                /\ m.weight = (IF m.final_transform_op /\ args.hp.zero_init_residual_transform
                               THEN "zero" ELSE "one")
                /\ m.bias = "zero"
           [] OTHER -> TRUE

\* C5: once construction has finished the initialization policy has been
\* applied to every learnable layer of the model, the head's linear projection
\* included (normal std 0.01 weights, zero bias).
C5_PolicyCoversEveryLayer == Constructed => PolicyApplied(self)

\* the layer a residual transformation tags final_transform_op
TaggedLayer(block) ==
    IF isinstance(block.mods.residual, "PreactivatedBottleneckTransformation")
    THEN block.mods.residual.mods.branch2c
    ELSE block.mods.residual.mods.branch2c_bn

RECURSIVE UntaggedConvsKaiming(_)
UntaggedConvsKaiming(m) ==
    IF "mods" \in DOMAIN m THEN \A k \in DOMAIN m.mods : UntaggedConvsKaiming(m.mods[k])
    ELSE (isinstance(m, "Conv3d") /\ ~m.final_transform_op)
            => m.weight = "kaiming_normal_fan_out"

RECURSIVE NoLayerZeroed(_)
NoLayerZeroed(m) ==
    IF "mods" \in DOMAIN m THEN \A k \in DOMAIN m.mods : NoLayerZeroed(m.mods[k])
    ELSE "weight" \in DOMAIN m => m.weight # "zero"

\* C6: with zero_init_residual_transform set, after construction the tagged
\* layer of every ResBlock of every stage (last conv of a pre-activated
\* residual, last batch norm of a post-activated one) has weight constant 0
\* and every untagged conv has the Kaiming fan-out initialization; without
\* the flag no layer's weight is zeroed.
C6_ZeroInitResidual ==
    Constructed =>
        /\ \A s \in 1..Len(self.mods.stages.mods) :
             \A j \in 1..args.hp.num_blocks[s] :
                LET block == self.mods.stages.mods[s].mods[1].mods[j]
                IN /\ TaggedLayer(block).final_transform_op
                   /\ TaggedLayer(block).cls
                        = (IF args.hp.residual_transformation = PreactResidual
                           THEN "Conv3d" ELSE "BatchNorm3d")
                   /\ args.hp.zero_init_residual_transform
                        => TaggedLayer(block).weight = "zero"
        /\ args.hp.zero_init_residual_transform => UntaggedConvsKaiming(self)
        /\ ~args.hp.zero_init_residual_transform => NoLayerZeroed(self)

C6_Witness ==
    /\ Constructed /\ args.hp.zero_init_residual_transform
    /\ args.hp.num_blocks = <<2, 1>>
    /\ args.hp.residual_transformation = PreactResidual
    /\ self.mods.stages.mods[2].mods[1].mods[1].mods.residual.mods.branch2c.weight = "zero"
    /\ self.mods.stages.mods[1].mods[1].mods[2].mods.residual.mods.branch2a.weight
         = "kaiming_normal_fan_out"

----------------------------------------------------------------------------
(* Properties of a single ResBlock, under SpecBlock *)

BlockForwardRan == pc \in {"done", "raised"} /\ locals # NoLocals
BothPathsReturned == ~IsRaised(locals.skip_out) /\ ~IsRaised(locals.residual_out)
ArgsNeedProjection ==
    args.dim_in # args.dim_out \/ args.temporal_stride # 1 \/ args.spatial_stride # 1
Odd(k) == k % 2 = 1

\* C7 as stated: in a block whose channels or strides change, for every
\* temporal kernel size >= 1, the skip path's output shape equals the residual
\* path's output shape.
C7_ShapesMatchAnyKernel ==
    (BlockForwardRan /\ ArgsNeedProjection /\ BothPathsReturned)
        => locals.skip_out.shape = locals.residual_out.shape

\* C7 amended: the same for every odd temporal kernel size, where padding
\* kernel // 2 keeps the temporal extent; the sum is then well-defined.
C7_ShapesMatchOddKernel ==
    (BlockForwardRan /\ ArgsNeedProjection /\ BothPathsReturned /\ Odd(args.temporal_kernel_size))
        => /\ locals.skip_out.shape = locals.residual_out.shape
           /\ locals.skip_out.shape[2] = args.dim_out
           /\ ~IsRaised(Add(locals.skip_out, locals.residual_out))

C7_Witness ==
    /\ pc = "done" /\ ArgsNeedProjection
    /\ args.temporal_kernel_size = 3 /\ args.temporal_stride = 2 /\ args.spatial_stride = 2
    /\ args.input.shape = <<1, 4, 3, 3, MaxExtent>>
    /\ locals.skip_out.shape = locals.residual_out.shape
    /\ locals.skip_out.shape[3] = 2

\* C8: the skip path of a ResBlock is the identity exactly when dim_in = dim_out
\* and both strides are 1, otherwise the projection the skip strategy builds;
\* an identity-skip block returns activation(residual(x) + x).
C8_IdentitySkip ==
    isinstance(self, "ResBlock") =>
        /\ isinstance(self.mods.skip, "Identity")
              <=> (args.dim_in = args.dim_out /\ args.temporal_stride = 1 /\ args.spatial_stride = 1)
        /\ ~isinstance(self.mods.skip, "Identity")
              => isinstance(self.mods.skip, args.skip_transformation.class)
        /\ (pc = "done" /\ isinstance(self.mods.skip, "Identity"))
              => /\ locals.skip_out = args.input
                 /\ x.val = Max(0, locals.residual_out.val + args.input.val)

C8_Witness ==
    /\ pc = "done" /\ isinstance(self.mods.skip, "Identity")
    /\ args.input.val = -1 /\ locals.residual_out.val = 2 /\ x.val = 1

----------------------------------------------------------------------------
(* Properties of a single ResStage, under SpecStage *)

\* the temporal kernel size block b was built with: its Tx1x1 or Tx3x3 conv
BlockTemporalKernel(b, temporal_conv_1x1) ==
    IF temporal_conv_1x1 THEN b.mods.residual.mods.branch2a.kernel_size[1]
    ELSE b.mods.residual.mods.branch2b.kernel_size[1]

\* C9: for each pathway with a non-empty temporal kernel basis b and block
\* count n, block i (0 <= i < n) is given temporal kernel size b[i mod len(b)],
\* and the derived list has exactly n entries.
C9_KernelBasisCycles ==
    isinstance(self, "ResStage") =>
        \A p \in 1..self.num_pathways :
            LET b == args.lists.temporal_kernel_basis[p]
                n == args.lists.num_blocks[p]
            IN Len(b) > 0 =>
                 /\ Len(self.temporal_kernel_sizes[p]) = n
                 /\ \A i \in 0..(n - 1) :
                      /\ self.temporal_kernel_sizes[p][i + 1] = b[(i % Len(b)) + 1]
                      /\ BlockTemporalKernel(self.mods[p].mods[i + 1], args.lists.temporal_conv_1x1[p])
                           = b[(i % Len(b)) + 1]

C9_Witness ==
    /\ isinstance(self, "ResStage")
    /\ args.lists.temporal_kernel_basis[1] = <<3, 1>>
    /\ args.lists.num_blocks[1] = 3
    /\ self.temporal_kernel_sizes[1] = <<3, 1, 3>>

\* C4: a ResStage built with final_stage true and the pre-activated bottleneck
\* as residual strategy ends each pathway with one BatchNorm3d and one ReLU
\* after its num_blocks ResBlocks; any other stage holds only the ResBlocks.
C4_FinalStageActivation ==
    isinstance(self, "ResStage") =>
        \A p \in 1..self.num_pathways :
            LET seq == self.mods[p].mods
                n == args.lists.num_blocks[p]
            IN /\ Len(seq) >= n
               /\ \A j \in 1..n : isinstance(seq[j], "ResBlock")
               /\ IF args.final_stage /\ args.residual_transformation = PreactResidual
                  THEN /\ Len(seq) = n + 2
                       /\ isinstance(seq[n + 1], "BatchNorm3d")
                       /\ isinstance(seq[n + 2], "ReLU")
                  ELSE Len(seq) = n

----------------------------------------------------------------------------
(* Properties of the head, under SpecHead *)

\* the number of spatio-temporal positions left by the head's pooling
PooledPositions == locals.pooled.shape[3] * locals.pooled.shape[4] * locals.pooled.shape[5]

\* C10: in inference mode the head's projection returns (batch, num_classes)
\* for any number of pooled positions; in training mode it returns
\* (batch, num_classes * positions), which is (batch, num_classes) only when
\* positions = 1.
C10_HeadOutputShape ==
    pc = "done" =>
        LET batch == args.input.shape[1] IN
        /\ ~args.training => x.shape = <<batch, args.num_classes>>
        /\ args.training => x.shape = <<batch, args.num_classes * PooledPositions>>
        /\ args.training => (x.shape = <<batch, args.num_classes>> <=> PooledPositions = 1)

C10_Witness ==
    /\ pc = "done" /\ ~args.training
    /\ PooledPositions = 4
    /\ x.shape = <<2, 5>>

----------------------------------------------------------------------------
(* Further properties of a ResStage, under SpecStage *)

StageBuilt == pc = "built"

\* what a built block shows of the arguments it was constructed with
BlockChannelsIn(b) == b.mods.residual.mods.branch2a.in_channels
BlockChannelsOut(b) == b.mods.residual.mods.branch2c.out_channels
BlockStrides(b) == b.mods.residual.mods.branch2b.stride

\* C13: in every pathway of a ResStage, block 0 is built with the pathway's
\* declared temporal/spatial stride and the dim_in -> dim_out transition; every
\* block i >= 1 is built with dim_out -> dim_out, both strides 1, and so has
\* an identity skip path.
C13_TransitionAtFirstBlockOnly ==
    StageBuilt =>
        \A p \in 1..self.num_pathways :
            \A j \in 1..args.lists.num_blocks[p] :
                LET b == self.mods[p].mods[j]
                    l == args.lists
                IN /\ isinstance(b, "ResBlock")
                   /\ BlockChannelsOut(b) = l.dim_out[p]
                   /\ j = 1 =>
                         /\ BlockChannelsIn(b) = l.dim_in[p]
                         /\ BlockStrides(b) = <<l.temporal_stride[p], l.spatial_stride[p], l.spatial_stride[p]>>
                   /\ j > 1 =>
                         /\ BlockChannelsIn(b) = l.dim_out[p]
                         /\ BlockStrides(b) = <<1, 1, 1>>
                         /\ b.mods.skip = Identity

\* a two-pathway stage whose first pathway changes channels and both strides
\* and has a block after block 0
C13_Witness ==
    /\ StageBuilt
    /\ self.num_pathways = 2
    /\ args.lists.num_blocks[1] >= 2
    /\ args.lists.dim_in[1] # args.lists.dim_out[1]
    /\ args.lists.temporal_stride[1] = 2
    /\ args.lists.spatial_stride[1] = 2
    /\ ~isinstance(self.mods[1].mods[1].mods.skip, "Identity")
    /\ isinstance(self.mods[1].mods[2].mods.skip, "Identity")

----------------------------------------------------------------------------
(* Further properties of the ResNeXt3D model, under Spec *)

StemBuilt == isinstance(self, "ResNeXt3D")
StemPathway == self.mods.stem.mods.stem.mods[1]
StemForwardRan == pc = "ResNeXt3D.forward:stages" /\ locals = [s |-> 1, i |-> 1]

\* the spatial extent after the stem's strided convolution, and after the
\* max-pool that follows it
StemConvExtent ==
    ConvOutSize(args.input.shape[4], args.hp.stem_spatial_kernel, 2,
                args.hp.stem_spatial_kernel \div 2)
StemPooledExtent == ConvOutSize(StemConvExtent, 3, 2, 1)

\* C12: the stem of a ResNeXt3D model has and applies the max-pool after conv,
\* norm and activation when stem_maxpool is true, and has and applies none when
\* stem_maxpool is false.
C12_StemMaxpoolFollowsFlag ==
    /\ StemBuilt =>
          (("pool_layer" \in DOMAIN StemPathway.mods) <=> args.hp.stem_maxpool)
    /\ StemForwardRan =>
          x.shape[4] = IF args.hp.stem_maxpool THEN StemPooledExtent ELSE StemConvExtent

StagesRegistered == isinstance(self, "ResNeXt3D") /\ "stages" \in DOMAIN self.mods
PreactModel ==
    /\ args.hp.skip_transformation = PreactSkip
    /\ args.hp.residual_transformation = PreactResidual

\* block i (0-based) of stage s (0-based) of the model
StageBlock(s, i) == self.mods.stages.mods[s + 1].mods[1].mods[i + 1]

\* the leading normalization + activation pair of a block's two paths
ResidualLeadingPair(b) ==
    /\ isinstance(b.mods.residual.mods.branch2a_bn, "BatchNorm3d")
    /\ isinstance(b.mods.residual.mods.branch2a_relu, "ReLU")
ResidualLeadingPairOmitted(b) ==
    /\ ~isinstance(b.mods.residual.mods.branch2a_bn, "BatchNorm3d")
    /\ ~isinstance(b.mods.residual.mods.branch2a_relu, "ReLU")
SkipLeadingPair(b) ==
    /\ "branch1_bn" \in DOMAIN b.mods.skip.mods
    /\ "branch1_relu" \in DOMAIN b.mods.skip.mods
SkipLeadingPairOmitted(b) ==
    /\ "branch1_bn" \notin DOMAIN b.mods.skip.mods
    /\ "branch1_relu" \notin DOMAIN b.mods.skip.mods

\* C15: in a pre-activated ResNeXt3D model the leading normalization +
\* activation pair of the residual path, and of the skip path when it is a
\* projection, is omitted in block 0 of stage 0 and in no other block.
C15_PreActivationOmittedOnce ==
    (StagesRegistered /\ PreactModel) =>
        \A s \in 0..(Len(args.hp.num_blocks) - 1) :
            \A i \in 0..(args.hp.num_blocks[s + 1] - 1) :
                LET b == StageBlock(s, i)
                    projection == ~isinstance(b.mods.skip, "Identity")
                IN IF s = 0 /\ i = 0
                   THEN /\ ResidualLeadingPairOmitted(b)
                        /\ projection => SkipLeadingPairOmitted(b)
                   ELSE /\ ResidualLeadingPair(b)
                        /\ projection => SkipLeadingPair(b)

\* a pre-activated model with a second block in stage 0 and a second stage,
\* whose first blocks both have a projection skip path
C15_Witness ==
    /\ StagesRegistered /\ PreactModel
    /\ Len(args.hp.num_blocks) >= 2
    /\ args.hp.num_blocks[1] >= 2
    /\ SkipLeadingPairOmitted(StageBlock(0, 0))
    /\ ResidualLeadingPairOmitted(StageBlock(0, 0))
    /\ ResidualLeadingPair(StageBlock(0, 1))
    /\ SkipLeadingPair(StageBlock(1, 0))

\* the channel counts the blocks of stage s (0-based) were built with
StageChannelsIn(s) == BlockChannelsIn(StageBlock(s, 0))
StageChannelsInner(s, i) == StageBlock(s, i).mods.residual.mods.branch2b.in_channels
StageChannelsOut(s, i) == BlockChannelsOut(StageBlock(s, i))

\* C16: for every stage index s of a ResNeXt3D model the stage's output
\* channels are stage_planes * 2^s, its inner channels are
\* num_groups * width_per_group * 2^s, and its input channels are the output
\* channels of stage s-1 (stem_planes for s = 0), which is the channel count
\* its predecessor was built to produce and the tensor it receives has.
C16_StagePlanes ==
    /\ StagesRegistered =>
          \A s \in 0..(Len(args.hp.num_blocks) - 1) :
              /\ \A i \in 0..(args.hp.num_blocks[s + 1] - 1) :
                    /\ StageChannelsOut(s, i) = args.hp.stage_planes * 2^s
                    /\ StageChannelsInner(s, i) =
                          args.hp.num_groups * args.hp.width_per_group * 2^s
              /\ StageChannelsIn(s) = IF s = 0 THEN args.hp.stem_planes
                                      ELSE args.hp.stage_planes * 2^(s - 1)
              /\ StageChannelsIn(s) =
                    IF s = 0 THEN StemPathway.mods.conv.out_channels
                    ELSE StageChannelsOut(s - 1, args.hp.num_blocks[s] - 1)
    /\ (pc = "ResNeXt3D.forward:stages" /\ locals.i = 1) =>
          x.shape[2] = StageChannelsIn(locals.s - 1)

\* the tensor leaving stage 0 of a model with at least two stages enters
\* stage 1 with twice stage_planes still to come
C16_Witness ==
    /\ pc = "ResNeXt3D.forward:stages"
    /\ locals = [s |-> 2, i |-> 1]
    /\ x.shape[2] = args.hp.stage_planes
    /\ StageChannelsIn(1) = args.hp.stage_planes
    /\ StageChannelsOut(1, 0) = 2 * args.hp.stage_planes
    /\ StageChannelsInner(1, 0) = 2 * StageChannelsInner(0, 0)

----------------------------------------------------------------------------
(* Properties of the constructors that take per-pathway lists, under
   SpecPathways *)

IsStageCall == "final_stage" \in DOMAIN args
PathwayConstructorRan == locals # NoLocals
ListsDiffer == \E f \in DOMAIN args.lists, g \in DOMAIN args.lists :
                   Len(args.lists[f]) # Len(args.lists[g])

\* C11: ResStage and ResNeXt3DStemMultiPathway raise ValueError whenever their
\* per-pathway lists do not all have the same length, and at that point no
\* sub-module (block, pathway sequence, single-pathway stem) has been created
\* or registered.
C11_MismatchRejectedFirst ==
    (PathwayConstructorRan /\ ListsDiffer) =>
        /\ pc = "raised"
        /\ err = "ValueError"
        /\ locals.created = 0
        /\ self = NoModule

\* a ResStage call whose lists differ in length has been rejected
C11_Witness ==
    /\ IsStageCall
    /\ Len(args.lists.num_blocks) = 2
    /\ Len(args.lists.temporal_conv_1x1) = 3
    /\ pc = "raised"
    /\ err = "ValueError"
    /\ locals.created = 0

----------------------------------------------------------------------------
(* Properties of a ResNeXt3DStemMultiPathway, under SpecStem *)

StemForwardReturned == isinstance(self, "ResNeXt3DStemMultiPathway") /\ pc \in {"done", "raised"}

\* C14: ResNeXt3DStemMultiPathway.forward, called with an input list whose
\* length differs from the configured number of pathways (shorter or longer),
\* fails with an error instead of returning a result.
C14_WrongListLengthFails ==
    (StemForwardReturned /\ Len(args.input.list) # self.num_pathways) =>
        pc = "raised"

----------------------------------------------------------------------------
(* Properties of the skip strategies, under SpecSkip *)

NoProjectionArgs ==
    args.dim_in = args.dim_out /\ args.temporal_stride = 1 /\ args.spatial_stride = 1
DirectSkipCallReturned ==
    args.call = "skip_transformation" /\ pc # "skip_transformation.__init__"
ResBlockCallReturned == args.call = "ResBlock" /\ pc # "ResBlock.__init__"

\* C17: constructing either skip transformation with dim_in = dim_out and both
\* strides 1 fails its assertion, and ResBlock never calls a skip constructor
\* with such arguments: it takes the identity instead and no AssertionError
\* comes out of it.
C17_ShortcutPrecondition ==
    /\ (DirectSkipCallReturned /\ NoProjectionArgs) =>
          /\ pc = "raised"
          /\ err = "AssertionError"
          /\ self = NoModule
    /\ ResBlockCallReturned =>
          /\ err # "AssertionError"
          /\ isinstance(self, "ResBlock")
          /\ NoProjectionArgs => self.mods.skip = Identity

\* a direct pre-activated shortcut call without a need to project was refused
C17_Witness ==
    /\ DirectSkipCallReturned /\ NoProjectionArgs
    /\ args.skip_transformation = PreactSkip
    /\ err = "AssertionError"

====
